---- MODULE Spec2Model ----
(***************************************************************************)
(* Model of weather.py: get_weather fetches a forecast document over HTTP, *)
(* transform_data flattens it into a table (pandas DataFrame), and         *)
(* plot_temperature draws the first `hours` rows; main runs the three in   *)
(* sequence.                                                               *)
(*                                                                         *)
(* Python values are tagged tuples, so that values of different Python     *)
(* types compare unequal instead of being incomparable:                    *)
(*   <<"str", chars>>            a str, chars a sequence of characters or  *)
(*                               opaque tokens                             *)
(*   <<"float", tenths>>         a JSON number, in tenths                  *)
(*   <<"Timestamp", y,mo,d,h,mi,s>>  a parsed pandas Timestamp (naive)     *)
(*   <<"date", y,mo,d>>          datetime.date                             *)
(*   <<"time", h,mi,s>>          datetime.time                             *)
(*   <<"list", elements>>        a JSON array                              *)
(*   <<"dict", items>>           a JSON object, items in key order         *)
(***************************************************************************)
EXTENDS Integers, Sequences, FiniteSets, TLC

VARIABLES pc, conn, pending, raw_data, weather_df, printed, plot, error, hours_arg, trace

vars == <<pc, conn, pending, raw_data, weather_df, printed, plot, error, hours_arg, trace>>

\* ---------------------------------------------------------------- bounds

\* Largest number of hourly entries in a fetched document.
MaxN == 2

\* Largest explicit `hours` argument the plotting harness passes.
MaxHours == 3

\* Default of plot_temperature's `hours` parameter.
DefaultHours == 24

\* ---------------------------------------------------------------- values

None == <<"None">>

Str(chars) == <<"str", chars>>

Float(tenths) == <<"float", tenths>>

List(elements) == <<"list", elements>>

Dict(items) == <<"dict", items>>

Elements(v) == v[2]

Items(v) == v[2]

IsStr(v) == v[1] = "str"

Chars(v) == v[2]

DigitChar(n) == <<"0", "1", "2", "3", "4", "5", "6", "7", "8", "9">>[n + 1]

IsDigit(c) == c \in {"0", "1", "2", "3", "4", "5", "6", "7", "8", "9"}

DigitVal(c) == CHOOSE n \in 0..9 : DigitChar(n) = c

\* "%02d" and "%04d" as used by date.isoformat() and time.isoformat()
Pad2(n) == <<DigitChar((n \div 10) % 10), DigitChar(n % 10)>>

Pad4(n) == <<DigitChar((n \div 1000) % 10), DigitChar((n \div 100) % 10)>> \o Pad2(n % 100)

AllDigits(cs) == \A i \in 1..Len(cs) : IsDigit(cs[i])

RECURSIVE NumVal(_)
NumVal(cs) == IF cs = <<>> THEN 0
              ELSE 10 * NumVal(SubSeq(cs, 1, Len(cs) - 1)) + DigitVal(cs[Len(cs)])

\* ------------------------------------------------------- dates and times

Timestamp(y, mo, d, h, mi, s) == <<"Timestamp", y, mo, d, h, mi, s>>

\* "YYYY-MM-DD" prefix followed by 'T' or ' ' and "HH:MM" or "HH:MM:SS"
WellFormedDatetime(cs) ==
    /\ Len(cs) \in {16, 19}
    /\ AllDigits(SubSeq(cs, 1, 4)) /\ cs[5] = "-"
    /\ AllDigits(SubSeq(cs, 6, 7)) /\ cs[8] = "-"
    /\ AllDigits(SubSeq(cs, 9, 10)) /\ cs[11] \in {"T", " "}
    /\ AllDigits(SubSeq(cs, 12, 13)) /\ cs[14] = ":"
    /\ AllDigits(SubSeq(cs, 15, 16))
    /\ Len(cs) = 19 => (cs[17] = ":" /\ AllDigits(SubSeq(cs, 18, 19)))
    /\ NumVal(SubSeq(cs, 6, 7)) \in 1..12
    /\ NumVal(SubSeq(cs, 9, 10)) \in 1..31
    /\ NumVal(SubSeq(cs, 12, 13)) \in 0..23
    /\ NumVal(SubSeq(cs, 15, 16)) \in 0..59
    /\ Len(cs) = 19 => NumVal(SubSeq(cs, 18, 19)) \in 0..59

\* pd.to_datetime on one element: can it be parsed
Parses(v) == IsStr(v) /\ WellFormedDatetime(Chars(v))

\* pd.to_datetime on one parsable element
ParseDatetime(v) ==
    LET cs == Chars(v)
    IN Timestamp(NumVal(SubSeq(cs, 1, 4)), NumVal(SubSeq(cs, 6, 7)),
                 NumVal(SubSeq(cs, 9, 10)), NumVal(SubSeq(cs, 12, 13)),
                 NumVal(SubSeq(cs, 15, 16)),
                 IF Len(cs) = 19 THEN NumVal(SubSeq(cs, 18, 19)) ELSE 0)

\* mutant: the hour column keeps the hour alone
DtTimeHourOnly(ts) == <<"time", ts[5], 0, 0>>

\* Series.dt.time on one element
DtTime(ts) == <<"time", ts[5], ts[6], ts[7]>>

\* Series.dt.date on one element
DtDate(ts) == <<"date", ts[2], ts[3], ts[4]>>

\* Series.astype(str) on one element: str(date), str(time), str(str)
AsStr(v) ==
    CASE v[1] = "date" -> Str(Pad4(v[2]) \o <<"-">> \o Pad2(v[3]) \o <<"-">> \o Pad2(v[4]))
      [] v[1] = "time" -> Str(Pad2(v[2]) \o <<":">> \o Pad2(v[3]) \o <<":">> \o Pad2(v[4]))
      [] OTHER -> v

\* str + str
Concat(a, b) == Str(Chars(a) \o Chars(b))

\* the documented format of hourly.time: "YYYY-MM-DDTHH:MM"
IsoMinute(y, mo, d, h, mi) ==
    Str(Pad4(y) \o <<"-">> \o Pad2(mo) \o <<"-">> \o Pad2(d) \o <<"T">> \o Pad2(h)
        \o <<":">> \o Pad2(mi))

\* ------------------------------------------------------------ DataFrame
\* A frame is [n |-> number of rows, cols |-> sequence of [name, cells]];
\* pandas allows two columns of one name, so cols is a sequence, not a map.

Column(name, cells) == [name |-> name, cells |-> cells]

ColNames(df) == [i \in 1..Len(df.cols) |-> df.cols[i].name]

HasCol(df, name) == \E i \in 1..Len(df.cols) : df.cols[i].name = name

\* positions of the columns called `name`, ascending
RECURSIVE Positions(_, _, _)
Positions(df, name, from) ==
    IF from > Len(df.cols) THEN <<>>
    ELSE (IF df.cols[from].name = name THEN <<from>> ELSE <<>>)
         \o Positions(df, name, from + 1)

\* df[name] for a name held by exactly one column
Col(df, name) == df.cols[Positions(df, name, 1)[1]].cells

Broadcast(n, value) == [i \in 1..n |-> value]

\* df[name] = cells: replaces the column in place, or appends a new one
SetColumn(df, name, cells) ==
    IF HasCol(df, name)
    THEN [df EXCEPT !.cols = [i \in 1..Len(df.cols) |->
              IF df.cols[i].name = name THEN Column(name, cells) ELSE df.cols[i]]]
    ELSE [df EXCEPT !.cols = Append(df.cols, Column(name, cells))]

\* a dict as a sequence of [k, v] items in insertion order
Item(k, v) == [k |-> k, v |-> v]

Keys(items) == {items[i].k : i \in 1..Len(items)}

Get(items, k) == (CHOOSE i \in 1..Len(items) : items[i].k = k)

Lookup(items, k) == items[Get(items, k)].v

\* ------------------------------------------------------------- results
\* What a call yields: a returned frame, or the exception that propagates.

NoFrame == [n |-> 0, cols |-> <<>>]

Return(df) == [ok |-> TRUE, df |-> df, err |-> "none"]

Raise(e) == [ok |-> FALSE, df |-> NoFrame, err |-> e]

\* ------------------------------------------------- flatten_hourly_data

\* pd.DataFrame(data['hourly']): one column per key, in key order; the
\* constructor raises ValueError when the lists differ in length.
SameLengths(hourly) ==
    \A i, j \in 1..Len(hourly) : Len(Elements(hourly[i].v)) = Len(Elements(hourly[j].v))

NewFrame(hourly) ==
    [n |-> IF hourly = <<>> THEN 0 ELSE Len(Elements(hourly[1].v)),
     cols |-> [i \in 1..Len(hourly) |-> Column(hourly[i].k, Elements(hourly[i].v))]]

\* {k: v for k, v in data.items() if k not in ['hourly', 'hourly_units']}
Metadata(data) ==
    LET Keep(it) == it.k \notin {"hourly", "hourly_units"}
    IN SelectSeq(data, Keep)

\* for key, value in metadata.items(): hourly_df[key] = value
RECURSIVE AttachMetadata(_, _)
AttachMetadata(df, items) ==
    IF items = <<>> THEN df
    ELSE AttachMetadata(SetColumn(df, Head(items).k, Broadcast(df.n, Head(items).v)),
                        Tail(items))

\* f"{key}_unit"
UnitName(key) == key \o "_unit"

\* mutant: the unit columns are filled with the key, not with its unit
RECURSIVE AttachUnitsKeyForUnit(_, _)
AttachUnitsKeyForUnit(df, items) ==
    IF items = <<>> THEN df
    ELSE AttachUnitsKeyForUnit(
             SetColumn(df, UnitName(Head(items).k), Broadcast(df.n, Str(<<Head(items).k>>))),
             Tail(items))

\* for key, unit in data['hourly_units'].items(): hourly_df[f"{key}_unit"] = unit
RECURSIVE AttachUnits(_, _)
AttachUnits(df, items) ==
    IF items = <<>> THEN df
    ELSE AttachUnits(SetColumn(df, UnitName(Head(items).k), Broadcast(df.n, Head(items).v)),
                     Tail(items))

flatten_hourly_data(data) ==
    IF "hourly" \notin Keys(data) THEN Raise("KeyError")
    ELSE IF ~SameLengths(Items(Lookup(data, "hourly"))) THEN Raise("ValueError")
    ELSE LET hourly_df == AttachMetadata(NewFrame(Items(Lookup(data, "hourly"))), Metadata(data))
         IN IF "hourly_units" \notin Keys(data) THEN Raise("KeyError")
            ELSE Return(AttachUnits(hourly_df, Items(Lookup(data, "hourly_units"))))

\* ------------------------------------------------------ transform_data

\* mutant: the two new names are swapped
RenameToSwapped(name) ==
    CASE name = "temperature_2m" -> "temperature_unit"
      [] name = "temperature_2m_unit" -> "temperature"
      [] OTHER -> name

\* df.rename(columns={...}): every column of an old name takes the new name;
\* nothing is done about a column that already has the new name.
RenameTo(name) ==
    CASE name = "temperature_2m" -> "temperature"
      [] name = "temperature_2m_unit" -> "temperature_unit"
      [] OTHER -> name

Rename(df) ==
    [df EXCEPT !.cols = [i \in 1..Len(df.cols) |->
        Column(RenameTo(df.cols[i].name), df.cols[i].cells)]]

ordered_columns ==
    <<"time", "hour", "temperature", "latitude", "longitude", "generationtime_ms",
      "utc_offset_seconds", "timezone", "timezone_abbreviation", "elevation",
      "time_unit", "temperature_unit">>

\* df[ordered_columns]: for each label in turn, every column of that label
RECURSIVE Select(_, _)
Select(df, labels) ==
    IF labels = <<>> THEN <<>>
    ELSE LET at == Positions(df, Head(labels), 1)
         IN [i \in 1..Len(at) |-> df.cols[at[i]]] \o Select(df, Tail(labels))

\* mutant: labels the frame lacks are skipped (as reindex or filter would)
ProjectAvailable(df, labels) ==
    Return([df EXCEPT !.cols = Select(df, labels)])

Project(df, labels) ==
    IF \E i \in 1..Len(labels) : ~HasCol(df, labels[i]) THEN Raise("KeyError")
    ELSE Return([df EXCEPT !.cols = Select(df, labels)])

\* mutant: the rows are put newest first while the time column is split
SplitTimeNewestFirst(df) ==
    LET parsed == [i \in 1..df.n |-> ParseDatetime(Col(df, "time")[df.n + 1 - i])]
        withHour == SetColumn(df, "hour", [i \in 1..df.n |-> DtTime(parsed[i])])
    IN SetColumn(withHour, "time", [i \in 1..df.n |-> DtDate(parsed[i])])

\* lines 66-68: parse the time column, split it into hour and date
SplitTime(df) ==
    LET parsed == [i \in 1..df.n |-> ParseDatetime(Col(df, "time")[i])]
        withHour == SetColumn(df, "hour", [i \in 1..df.n |-> DtTime(parsed[i])])
    IN SetColumn(withHour, "time", [i \in 1..df.n |-> DtDate(parsed[i])])

transform_data(data) ==
    LET flat == flatten_hourly_data(data)
    IN IF ~flat.ok THEN flat
       ELSE IF ~HasCol(flat.df, "time") THEN Raise("KeyError")
       ELSE IF \E i \in 1..flat.df.n : ~Parses(Col(flat.df, "time")[i]) THEN Raise("ValueError")
       ELSE Project(Rename(SplitTime(flat.df)), ordered_columns)

\* ----------------------------------------------------- plot_temperature

\* mutant: the slice takes one element too many
SliceInclusive(seq, hours) ==
    LET n == Len(seq)
        stop == IF hours + 1 < n THEN hours + 1 ELSE n
    IN SubSeq(seq, 1, IF stop > 0 THEN stop ELSE 0)

\* seq[:hours]
Slice(seq, hours) ==
    LET n == Len(seq)
        stop == IF hours >= 0 THEN (IF hours < n THEN hours ELSE n)
                ELSE (IF n + hours > 0 THEN n + hours ELSE 0)
    IN SubSeq(seq, 1, stop)

\* line 94: the datetime column rebuilt from the time and hour columns
Recombine(df) ==
    [i \in 1..df.n |->
        Concat(Concat(AsStr(Col(df, "time")[i]), Str(<<" ">>)), AsStr(Col(df, "hour")[i]))]

\* df[name] is a Series for a name one column holds and a DataFrame for a
\* name several hold; plt.plot draws one line per column of y.
Lines(x, df, name, hours) ==
    LET at == Positions(df, name, 1)
    IN [j \in 1..Len(at) |->
          LET y == Slice(df.cols[at[j]].cells, hours)
          IN [i \in 1..Len(y) |-> <<Slice(x, hours)[i], y[i]>>]]

\* df[name].iloc[0]: a cell, or a row of cells when several columns hold the name
Iloc0(df, name) ==
    LET at == Positions(df, name, 1)
    IN IF Len(at) = 1 THEN df.cols[at[1]].cells[1]
       ELSE <<"Series", [j \in 1..Len(at) |-> df.cols[at[j]].cells[1]]>>

NoPlot == [figure |-> FALSE, lines |-> <<>>, ylabel |-> None, shown |-> FALSE, err |-> "none"]

\* mutant: an empty table is refused before anything is drawn
plot_temperature_guarded(df, hours) ==
    IF df.n = 0 THEN [NoPlot EXCEPT !.err = "EmptyDataError"]
    ELSE LET datetime == [i \in 1..df.n |-> ParseDatetime(Recombine(df)[i])]
         IN [NoPlot EXCEPT !.figure = TRUE,
                           !.lines = Lines(datetime, df, "temperature", hours),
                           !.ylabel = Iloc0(df, "temperature_unit"), !.shown = TRUE]

plot_temperature(df, hours) ==
    LET strs == Recombine(df)
    IN IF \E i \in 1..df.n : ~Parses(strs[i]) THEN [NoPlot EXCEPT !.err = "ValueError"]
       ELSE LET datetime == [i \in 1..df.n |-> ParseDatetime(strs[i])]
                drawn == [NoPlot EXCEPT !.figure = TRUE,
                                        !.lines = Lines(datetime, df, "temperature", hours)]
            IN IF df.n = 0 THEN [drawn EXCEPT !.err = "IndexError"]
               ELSE [drawn EXCEPT !.ylabel = Iloc0(df, "temperature_unit"), !.shown = TRUE]

\* ------------------------------------------------- documents on the wire
\* What json.loads may hand to main: the documented response, and the
\* documented response with one deviation (a key missing, a key added, a
\* malformed time string, lists of unequal length).

MetaKeys ==
    <<"latitude", "longitude", "generationtime_ms", "utc_offset_seconds",
      "timezone", "timezone_abbreviation", "elevation">>

\* two responses' worth of metadata; every key has a value of its own
MetaValue(key, v) ==
    CASE key = "latitude" -> Float(40 + v)
      [] key = "longitude" -> Float(0 - 100 - v)
      [] key = "generationtime_ms" -> Float(5 + v)
      [] key = "utc_offset_seconds" -> <<"int", 3600 * (v - 1)>>
      [] key = "timezone" -> Str(<<IF v = 1 THEN "GMT" ELSE "Europe/Paris">>)
      [] key = "timezone_abbreviation" -> Str(<<IF v = 1 THEN "GMT" ELSE "CET">>)
      [] key = "elevation" -> Float(70 + v)

Variants == {1, 2}

TimeUnit(v) == Str(<<"iso8601">>)

TempUnit(v) == Str(<<IF v = 1 THEN "degC" ELSE "degF">>)

TimeStrings ==
    {IsoMinute(2024, 1, 1, 0, 0), IsoMinute(2024, 1, 1, 1, 0), IsoMinute(2025, 12, 31, 23, 30)}

\* two temperature curves, one rising and one falling through zero
TemperatureLists(n) ==
    {[i \in 1..n |-> Float(100 + 5 * i)], [i \in 1..n |-> Float(15 - 10 * i)]}

SeqsOf(S, n) == [1..n -> S]

BaseDoc(times, temps, v) ==
    [i \in 1..Len(MetaKeys) |-> Item(MetaKeys[i], MetaValue(MetaKeys[i], v))]
    \o << Item("hourly_units",
               Dict(<<Item("time", TimeUnit(v)), Item("temperature_2m", TempUnit(v))>>)),
          Item("hourly",
               Dict(<<Item("time", List(times)), Item("temperature_2m", List(temps))>>)) >>

BaseDocs ==
    UNION {{BaseDoc(times, temps, v) :
               times \in SeqsOf(TimeStrings, n), temps \in TemperatureLists(n), v \in Variants}
           : n \in 0..MaxN}

Without(items, k) == LET Keep(it) == it.k # k IN SelectSeq(items, Keep)

\* doc with the items of the dict under key `under` replaced by `new`
Nested(doc, under, new) ==
    [i \in 1..Len(doc) |-> IF doc[i].k = under THEN Item(under, Dict(new)) ELSE doc[i]]

Hourly(doc) == Items(Lookup(doc, "hourly"))

Units(doc) == Items(Lookup(doc, "hourly_units"))

Times(doc) == Elements(Lookup(Hourly(doc), "time"))

Temps(doc) == Elements(Lookup(Hourly(doc), "temperature_2m"))

N(doc) == Len(Times(doc))

ExtraNames == {"relative_humidity_2m", "hour", "temperature"}

Malformed == Str(<<"n", "/", "a">>)

Deviations(doc) ==
    {Without(doc, k) : k \in Keys(doc)}
    \cup {Nested(doc, "hourly", Without(Hourly(doc), k)) : k \in Keys(Hourly(doc))}
    \cup {Nested(doc, "hourly_units", Without(Units(doc), k)) : k \in Keys(Units(doc))}
    \cup {Nested(doc, "hourly", Append(Hourly(doc), Item(x, List(Broadcast(N(doc), Float(550))))))
             : x \in ExtraNames}
    \cup {Nested(doc, "hourly_units", Append(Units(doc), Item(x, Str(<<"%">>)))) : x \in ExtraNames}
    \cup {Append(doc, Item(x, Str(<<"extra">>))) : x \in ExtraNames}
    \cup {Nested(doc, "hourly",
                 <<Item("time", List([Times(doc) EXCEPT ![i] = Malformed])),
                   Hourly(doc)[2]>>) : i \in 1..N(doc)}
    \cup {Nested(doc, "hourly",
                 <<Hourly(doc)[1],
                   Item("temperature_2m", List(Append(Temps(doc), Float(105))))>>)}

Documents == BaseDocs \cup UNION {Deviations(doc) : doc \in BaseDocs}

\* ------------------------------------------------------------------ main
\* pc is the position in main: "start" (before urlopen), "with_body" (inside
\* the with block, connection open), "with_exit" (leaving the with block),
\* "shape", "print", "plot", then "done", or "failed" when an exception has
\* propagated out of main.  trace records the stages entered, in order.

\* rows shown by DataFrame.head()
HeadRows == 5

Init ==
    /\ pc = "start"
    /\ conn = "none"
    /\ pending = [ok |-> FALSE, doc |-> <<>>, err |-> "none"]
    /\ raw_data = <<>>
    /\ weather_df = NoFrame
    /\ printed = NoFrame
    /\ plot = NoPlot
    /\ error = "none"
    /\ hours_arg = DefaultHours
    /\ trace = <<>>

\* urllib.request.urlopen(url) returns a response
UrlopenReturns ==
    /\ pc = "start"
    /\ conn' = "open"
    /\ pc' = "with_body"
    /\ trace' = Append(trace, "fetch")
    /\ UNCHANGED <<pending, raw_data, weather_df, printed, plot, error, hours_arg>>

\* urllib.request.urlopen(url) raises: nothing was opened
UrlopenRaises ==
    /\ pc = "start"
    /\ pc' = "failed"
    /\ error' = "URLError"
    /\ trace' = Append(trace, "fetch")
    /\ UNCHANGED <<conn, pending, raw_data, weather_df, printed, plot, hours_arg>>

\* json.loads(response.read()) yields a document
ReadReturns ==
    /\ pc = "with_body"
    /\ \E doc \in Documents : pending' = [ok |-> TRUE, doc |-> doc, err |-> "none"]
    /\ pc' = "with_exit"
    /\ UNCHANGED <<conn, raw_data, weather_df, printed, plot, error, hours_arg, trace>>

\* response.read() or json.loads raises inside the with block
ReadRaises ==
    /\ pc = "with_body"
    /\ \E e \in {"IncompleteRead", "JSONDecodeError"} :
          pending' = [ok |-> FALSE, doc |-> <<>>, err |-> e]
    /\ pc' = "with_exit"
    /\ UNCHANGED <<conn, raw_data, weather_df, printed, plot, error, hours_arg, trace>>

\* mutant: no with statement; the response is closed after a good read only
ExitWithoutClose ==
    /\ pc = "with_exit"
    /\ conn' = IF pending.ok THEN "closed" ELSE conn
    /\ IF pending.ok
       THEN /\ raw_data' = pending.doc
            /\ pc' = "shape"
            /\ error' = error
       ELSE /\ raw_data' = raw_data
            /\ pc' = "failed"
            /\ error' = pending.err
    /\ UNCHANGED <<pending, weather_df, printed, plot, hours_arg, trace>>

\* the with statement's exit closes the response, then get_weather returns
\* the document or lets the exception go on
ExitWith ==
    /\ pc = "with_exit"
    /\ conn' = "closed"
    /\ IF pending.ok
       THEN /\ raw_data' = pending.doc
            /\ pc' = "shape"
            /\ error' = error
       ELSE /\ raw_data' = raw_data
            /\ pc' = "failed"
            /\ error' = pending.err
    /\ UNCHANGED <<pending, weather_df, printed, plot, hours_arg, trace>>

\* mutant: an exception of transform_data is swallowed and main goes on
ShapeSwallows ==
    /\ pc = "shape"
    /\ weather_df' = transform_data(raw_data).df
    /\ pc' = "print"
    /\ trace' = Append(trace, "shape")
    /\ UNCHANGED <<conn, pending, raw_data, printed, plot, error, hours_arg>>

\* weather_df = transform_data(raw_data)
Shape ==
    /\ pc = "shape"
    /\ LET r == transform_data(raw_data)
       IN /\ weather_df' = r.df
          /\ pc' = IF r.ok THEN "print" ELSE "failed"
          /\ error' = r.err
    /\ trace' = Append(trace, "shape")
    /\ UNCHANGED <<conn, pending, raw_data, printed, plot, hours_arg>>

\* df.head(): the first HeadRows rows
HeadOf(df) ==
    [n |-> IF df.n < HeadRows THEN df.n ELSE HeadRows,
     cols |-> [i \in 1..Len(df.cols) |->
                  Column(df.cols[i].name, Slice(df.cols[i].cells, HeadRows))]]

\* print(weather_df.head())
PrintHead ==
    /\ pc = "print"
    /\ printed' = HeadOf(weather_df)
    /\ pc' = "plot"
    /\ trace' = Append(trace, "print")
    /\ UNCHANGED <<conn, pending, raw_data, weather_df, plot, error, hours_arg>>

\* plot_temperature(weather_df, hours)
RenderWith(hours) ==
    /\ pc = "plot"
    /\ hours_arg' = hours
    /\ plot' = plot_temperature(weather_df, hours)
    /\ pc' = IF plot'.err = "none" THEN "done" ELSE "failed"
    /\ error' = plot'.err
    /\ trace' = Append(trace, "render")
    /\ UNCHANGED <<conn, pending, raw_data, weather_df, printed>>

\* plot_temperature(weather_df): main's call, with the default hours
Render == RenderWith(DefaultHours)

Next ==
    \/ UrlopenReturns
    \/ UrlopenRaises
    \/ ReadReturns
    \/ ReadRaises
    \/ ExitWith
    \/ Shape
    \/ PrintHead
    \/ Render

Spec == Init /\ [][Next]_vars

\* get_weather does not stall inside its with block: once the response is
\* open the read returns or raises, and then the block is left
FairSpec == Spec /\ WF_vars(ReadReturns \/ ReadRaises) /\ WF_vars(ExitWith)

\* plot_temperature called directly with an explicit hours argument
HoursArgs == ((0 - 1)..MaxHours) \cup {DefaultHours}

RenderExplicit == \E h \in HoursArgs : RenderWith(h)

NextPlot ==
    \/ UrlopenReturns
    \/ UrlopenRaises
    \/ ReadReturns
    \/ ReadRaises
    \/ ExitWith
    \/ Shape
    \/ PrintHead
    \/ RenderExplicit

PlotSpec == Init /\ [][NextPlot]_vars

\* ------------------------------------------------- vocabulary of the claims

\* transform_data has been called / has returned a table / has raised
ShapeRan == Len(trace) >= 2

ShapeRaised == Len(trace) = 2 /\ pc = "failed"

ShapeReturned == ShapeRan /\ ~ShapeRaised

\* plot_temperature has been called
RenderRan == Len(trace) = 4

HasHourly(doc) == "hourly" \in Keys(doc)

HasUnits(doc) == "hourly_units" \in Keys(doc)

\* the documented "YYYY-MM-DDTHH:MM"
IsIsoMinute(v) == Parses(v) /\ Len(Chars(v)) = 16 /\ Chars(v)[11] = "T"

\* A valid forecast document (spec section 3): the seven scalars, hourly and
\* hourly_units at top level; hourly has at least time and temperature_2m,
\* all its lists of one length; hourly_units names the unit of time and of
\* temperature_2m and of nothing hourly lacks; times in the documented format.
Valid(doc) ==
    /\ Keys(doc) = {MetaKeys[i] : i \in 1..Len(MetaKeys)} \cup {"hourly", "hourly_units"}
    /\ {"time", "temperature_2m"} \subseteq Keys(Hourly(doc))
    /\ SameLengths(Hourly(doc))
    /\ {"time", "temperature_2m"} \subseteq Keys(Units(doc))
    /\ Keys(Units(doc)) \subseteq Keys(Hourly(doc))
    /\ \A i \in 1..N(doc) : IsIsoMinute(Times(doc)[i])

\* the cells of the one column called `name`
Only(df, name) == Len(Positions(df, name, 1)) = 1

\* every column of the frame has one cell per row
Rectangular(df) == \A c \in 1..Len(df.cols) : Len(df.cols[c].cells) = df.n

\* -------------------------------------------------------------------- C1
\* C1: for a valid document whose hourly lists have N entries, transform_data
\* returns a table (it does not raise) of exactly N rows, every column N
\* cells long, and row i holds the date and the time of day parsed from
\* entry i of hourly.time: input order, nothing sorted, dropped or repeated.
\* The row count and the order hold of every table transform_data returns.
C1_RowsInInputOrder ==
    ShapeRan =>
        /\ Valid(raw_data) => ShapeReturned
        /\ ShapeReturned =>
              /\ weather_df.n = N(raw_data)
              /\ Rectangular(weather_df)
              /\ Only(weather_df, "time") /\ Only(weather_df, "hour")
              /\ \A i \in 1..N(raw_data) :
                    /\ Col(weather_df, "time")[i] = DtDate(ParseDatetime(Times(raw_data)[i]))
                    /\ Col(weather_df, "hour")[i] = DtTime(ParseDatetime(Times(raw_data)[i]))

\* a valid document of two hours, the later one first, has been shaped
C1_Witness ==
    /\ ShapeReturned
    /\ Valid(raw_data)
    /\ Times(raw_data) = <<IsoMinute(2025, 12, 31, 23, 30), IsoMinute(2024, 1, 1, 0, 0)>>
    /\ Col(weather_df, "time") = <<(<<"date", 2025, 12, 31>>), (<<"date", 2024, 1, 1>>)>>

C3_ExactlyTwelveColumns ==
    ShapeReturned => ColNames(weather_df) = ordered_columns

C5_RoundTrip ==
    ShapeReturned =>
        \A i \in 1..weather_df.n :
            /\ Parses(Recombine(weather_df)[i])
            /\ ParseDatetime(Recombine(weather_df)[i]) = ParseDatetime(Times(raw_data)[i])

\* a row for 2025-12-31T23:30 has been shaped and recombines to
\* "2025-12-31 23:30:00"
C5_Witness ==
    /\ ShapeReturned
    /\ weather_df.n >= 1
    /\ Times(raw_data)[1] = IsoMinute(2025, 12, 31, 23, 30)
    /\ Recombine(weather_df)[1]
          = Str(<<"2", "0", "2", "5", "-", "1", "2", "-", "3", "1", " ",
                  "2", "3", ":", "3", "0", ":", "0", "0">>)

\* -------------------------------------------------------------------- C6
\* the document cannot yield one of the twelve columns: a top-level scalar,
\* hourly, hourly_units, hourly.time, hourly.temperature_2m,
\* hourly_units.time or hourly_units.temperature_2m is missing
LacksRequired(doc) ==
    \/ \E k \in 1..Len(MetaKeys) : MetaKeys[k] \notin Keys(doc)
    \/ ~HasHourly(doc)
    \/ ~HasUnits(doc)
    \/ HasHourly(doc) /\ ~({"time", "temperature_2m"} \subseteq Keys(Hourly(doc)))
    \/ HasUnits(doc) /\ ~({"time", "temperature_2m"} \subseteq Keys(Units(doc)))

\* C6: when the document lacks hourly.temperature_2m, or anything else one
\* of the twelve columns is made from, transform_data raises KeyError and
\* returns no table: main goes no further and weather_df is never set.
C6_MissingFieldRaises ==
    (ShapeRan /\ LacksRequired(raw_data)) =>
        /\ ShapeRaised
        /\ error = "KeyError"
        /\ weather_df = NoFrame

\* transform_data was given a document whose hourly has no temperature_2m
C6_Witness ==
    /\ ShapeRan
    /\ HasHourly(raw_data)
    /\ Keys(Hourly(raw_data)) = {"time"}
    /\ N(raw_data) = 2
    /\ error = "KeyError"

\* -------------------------------------------------------------------- C7
\* the document's hourly lists are empty
EmptyHourly(doc) == Valid(doc) /\ N(doc) = 0

\* C7 as stated: with empty hourly lists transform_data returns a zero-row
\* table and the plot_temperature call that follows fails with an
\* EmptyDataError.
C7_AsStated ==
    (ShapeRan /\ EmptyHourly(raw_data)) =>
        /\ ShapeReturned /\ weather_df.n = 0
        /\ RenderRan => (pc = "failed" /\ error = "EmptyDataError")

\* C7 amended: with empty hourly lists transform_data returns a zero-row
\* table, and the plot_temperature call that follows fails with the
\* IndexError of reading row 0's temperature_unit, after the figure was
\* opened and a line of no points drawn, and before anything is shown.
C7_EmptyFailsWithIndexError ==
    (ShapeRan /\ EmptyHourly(raw_data)) =>
        /\ ShapeReturned /\ weather_df.n = 0
        /\ RenderRan =>
              /\ pc = "failed" /\ error = "IndexError"
              /\ plot.figure
              /\ \A j \in 1..Len(plot.lines) : plot.lines[j] = <<>>
              /\ ~plot.shown /\ plot.ylabel = None

\* plot_temperature has been called on the zero-row table
C7_Witness ==
    /\ RenderRan
    /\ EmptyHourly(raw_data)
    /\ weather_df.n = 0
    /\ pc = "failed"

\* -------------------------------------------------------------------- C8
Min(a, b) == IF a < b THEN a ELSE b

\* C8: called on a shaped table (the twelve columns) of N >= 1 rows with
\* hours >= 0, plot_temperature does not fail, whether or not N < hours; it
\* draws one line of exactly min(hours, N) points, point i being row i's
\* date-time, rebuilt from its time and hour, against row i's temperature;
\* it labels the y-axis with row 0's temperature_unit and shows the chart.
C8_PlotsFirstHoursRows ==
    (RenderRan /\ weather_df.n >= 1 /\ hours_arg >= 0
       /\ ColNames(weather_df) = ordered_columns) =>
        /\ pc = "done" /\ plot.err = "none"
        /\ plot.figure /\ plot.shown
        /\ Len(plot.lines) = 1
        /\ Len(plot.lines[1]) = Min(hours_arg, weather_df.n)
        /\ \A i \in 1..Min(hours_arg, weather_df.n) :
              plot.lines[1][i] = <<ParseDatetime(Times(raw_data)[i]),
                                   Col(weather_df, "temperature")[i]>>
        /\ plot.ylabel = Col(weather_df, "temperature_unit")[1]

\* two rows were asked for one hour, and for three
C8_Witness ==
    /\ RenderRan
    /\ weather_df.n = 2
    /\ ColNames(weather_df) = ordered_columns
    /\ hours_arg = 1
    /\ Len(plot.lines[1]) = 1

\* -------------------------------------------------------------------- C9
Stages == <<"fetch", "shape", "print", "render">>

\* C9: the stages of main are entered at most once each and in the order
\* fetch, shape, print, render; shaping starts only after get_weather has
\* returned a document, printing and rendering only after transform_data
\* has returned a table; once a stage has failed, or main is done, main
\* takes no further step.
C9_LinearAndFatal ==
    /\ Len(trace) <= Len(Stages)
    /\ \A i \in 1..Len(trace) : trace[i] = Stages[i]
    /\ Len(trace) >= 2 => (pending.ok /\ raw_data = pending.doc /\ conn = "closed")
    /\ Len(trace) >= 3 => (transform_data(raw_data).ok /\ weather_df = transform_data(raw_data).df)
    /\ pc \in {"failed", "done"} => ~ENABLED Next
    /\ pc = "failed" <=> error # "none"
    /\ pc = "done" => Len(trace) = 4

\* transform_data raised: main stopped after two stages
C9_Witness ==
    /\ pc = "failed"
    /\ trace = <<"fetch", "shape">>
    /\ error = "ValueError"

\* ------------------------------------------------------------------- C10
\* C10: the connection is open only inside the with block of get_weather;
\* once it is open it is eventually closed, whether the read and the parse
\* succeed or raise, and it is closed whenever get_weather has returned or
\* raised.
C10_ConnectionClosed ==
    /\ [](conn = "open" => pc \in {"with_body", "with_exit"})
    /\ [](pc \notin {"start", "with_body", "with_exit"} /\ Len(trace) >= 1 /\ error # "URLError"
            => conn = "closed")
    /\ (conn = "open" ~> conn = "closed")

\* the read raised inside the with block and the connection was closed
C10_Witness ==
    /\ pc = "failed"
    /\ error = "JSONDecodeError"
    /\ conn = "closed"

====
